---- MODULE Spec2Model ----
(***************************************************************************)
(* Model of P2PHost (src/src/host.ts): the connection registry, the        *)
(* credential gate, the relay callbacks handed to the Master, and the      *)
(* action router.                                                          *)
(***************************************************************************)
EXTENDS Integers, Sequences, FiniteSets, TLC

\* Number of connection handles the transport may hand to the host.
NumHandles == 2

\* Default number of player slots of a match.
numPlayers == 2

Handles == 1..NumHandles

matchID == "m1"

\* JavaScript undefined and null, kept apart from every string value.
Undefined == "<undefined>"
Null == "<null>"

\* NaN, the result of the numeric conversion of a non-numeric string.
NaN == -1

\* client.metadata.playerID values a handle may carry: absent, the empty
\* string, the first player, an out-of-range number, a non-numeric string.
PlayerIDSeq == <<Undefined, Null, "", "0", "7", "x">>

PlayerIDs == {PlayerIDSeq[i] : i \in 1..Len(PlayerIDSeq)}

\* client.metadata.credentials values a handle may carry.
CredentialSeq == <<Undefined, "", "a", "b">>

Credentials == {CredentialSeq[i] : i \in 1..Len(CredentialSeq)}

\* Payloads the Master hands to the relay callbacks.
Payloads == {"G1"}

\* ClientAction.type values, including one the router does not know.
ActionTypes == {"update", "chat", "sync", "bogus"}

\* ClientAction.args values.
ActionArgs == {<<"G1", "0">>}

VARIABLES
    clients,     \* this.clients: handles in Map insertion order
    db,          \* metadata of the match held by this.db
    hmeta,       \* client.metadata of every handle
    last,        \* what the last call did: results, engine calls, sends
    prev,        \* registry, store and first claims when the last call began
    firstClaim,  \* per slot: credentials of the first non-empty claim
    firstStored, \* per slot: the first credentials the store held
    refused,     \* handles whose authentication returned false at least once
    notified,    \* handles with a connect notification not yet followed
                 \* by a disconnect notification
    call,        \* per handle: the registerClient call in progress, statement
                 \* by statement
    arrivals,    \* the handles in the order their statement-wise calls began
    host,        \* the outcome of the constructor and the game it was given
    twin         \* registry, store and last call of a host constructed with
                 \* a unique game name that is given the same calls

vars ==
    <<clients, db, hmeta, last, prev, firstClaim, firstStored, refused,
      notified, call, arrivals, host, twin>>

\* What only the statement-wise specification and the specification of the
\* constructor change.
aux == <<call, arrivals, host, twin>>

Slots == 0..(numPlayers - 1)

Range(s) == {s[i] : i \in 1..Len(s)}

Min(S) == CHOOSE x \in S : \A y \in S : x <= y

\* JavaScript truthiness of an optional string.
Truthy(s) == s \notin {Undefined, Null, ""}

\* The unary plus of line 89/94/103 on the playerID strings of the model.
ToNumber(s) ==
    CASE s = "" -> 0
      [] s = Null -> 0
      [] s = "0" -> 0
      [] s = "1" -> 1
      [] s = "7" -> 7
      [] OTHER -> NaN

\* filterPlayerView(playerID, data): the view of data redacted for playerID.
filterPlayerView(playerID, data) == [view |-> playerID, data |-> data]

\* Map.set(client, client): an existing key keeps its position.
MapSet(m, client) == IF client \in Range(m) THEN m ELSE Append(m, client)

MapDelete_oldest(m, client) ==
    IF client \in Range(m) THEN SelectSeq(m, LAMBDA c : c # client)
    ELSE IF m = <<>> THEN m ELSE Tail(m)

\* Map.delete(client).
MapDelete(m, client) == SelectSeq(m, LAMBDA c : c # client)

\* The match created by the constructor: no slot has credentials.
createMatch ==
    [gameName |-> "game", unlisted |-> FALSE,
     players |-> [k \in Slots |-> [id |-> k, credentials |-> Undefined]]]

\* The store before db.createMatch is called.
NoMatch ==
    [gameName |-> Undefined, unlisted |-> FALSE,
     players |-> [k \in {} |-> Undefined]]

\* The games given to the constructor: a name, and whether createMatch
\* reports a setupDataError for the game.
GameNames == {"", "default", "game"}

Games == [name : GameNames, setupDataError : BOOLEAN]

UniqueGame == [name |-> "game", setupDataError |-> FALSE]

\* Line 28: the name is missing or the placeholder.
warns(name) == ~Truthy(name) \/ name = "default"

constructor_strict(game) ==
    IF game.setupDataError \/ warns(game.name)
    THEN [status |-> "failed", warned |-> warns(game.name), game |-> game,
          db |-> NoMatch]
    ELSE [status |-> "created", warned |-> FALSE, game |-> game,
          db |-> [createMatch EXCEPT !.gameName = game.name]]

\* Lines 17-65: the warning of lines 28-34, the throw of lines 42-44 and
\* the match stored at lines 46-47.
constructor(game) ==
    IF game.setupDataError
    THEN [status |-> "failed", warned |-> warns(game.name), game |-> game,
          db |-> NoMatch]
    ELSE [status |-> "created", warned |-> warns(game.name), game |-> game,
          db |-> [createMatch EXCEPT !.gameName = game.name]]

NoCall ==
    [op |-> "new", client |-> 0, authenticated |-> <<>>, deleted |-> FALSE,
     writes |-> 0, called |-> <<>>, sent |-> <<>>, raised |-> FALSE,
     target |-> Undefined, payload |-> Undefined, again |-> FALSE,
     action |-> [type |-> Undefined, args |-> <<>>],
     reaction |-> "none", registry |-> <<>>]

\* The twin of a host that was not constructed by the constructor action.
NoTwin == [clients |-> <<>>, db |-> NoMatch, last |-> NoCall]

\* No registerClient call of a handle is in progress.
Idle == [pc |-> "idle", metadata |-> createMatch, ok |-> FALSE]

isSpectator_nullClaims(playerID, metadata) ==
    \/ playerID = Undefined
    \/ ~(ToNumber(playerID) \in DOMAIN metadata.players)

\* Lines 86-90: the handle is a spectator.
isSpectator(playerID, metadata) ==
    \/ playerID = Null
    \/ playerID = Undefined
    \/ ~(ToNumber(playerID) \in DOMAIN metadata.players)

shouldBind_rebind(existingCredentials, credentials) ==
    Truthy(credentials) /\ credentials # existingCredentials

shouldBind_rewrite(existingCredentials, credentials) ==
    Truthy(credentials)
        /\ (~Truthy(existingCredentials) \/ credentials = existingCredentials)

\* Line 98: no credentials stored yet and the client provides some.
shouldBind(existingCredentials, credentials) ==
    ~Truthy(existingCredentials) /\ Truthy(credentials)

isAnonymous_anySlot(existingCredentials, credentials) ==
    ~Truthy(credentials)

\* Line 110: credentials neither provided nor stored.
isAnonymous(existingCredentials, credentials) ==
    ~Truthy(existingCredentials) /\ ~Truthy(credentials)

credentialsMatch_any(credentials, existingCredentials) ==
    Truthy(credentials)

\* Line 113: strict equality of provided and stored credentials.
credentialsMatch(credentials, existingCredentials) ==
    credentials = existingCredentials

boundMetadata_noSpread(metadata, k, credentials) ==
    [metadata EXCEPT !.players[k] = [credentials |-> credentials]]

\* Lines 99-105: the metadata handed to setMetadata.
boundMetadata(metadata, k, credentials) ==
    [metadata EXCEPT !.players[k].credentials = credentials]

\* Lines 81-114: the result, the metadata left in the store and the number
\* of setMetadata calls.
authenticateClient(client, metadata) ==
    LET playerID == client.playerID
        credentials == client.credentials
    IN  IF isSpectator(playerID, metadata)
        THEN [ok |-> TRUE, metadata |-> metadata, writes |-> 0]
        ELSE LET k == ToNumber(playerID)
                 existingCredentials == metadata.players[k].credentials
             IN  IF shouldBind(existingCredentials, credentials)
                 THEN [ok |-> TRUE,
                       metadata |-> boundMetadata(metadata, k, credentials),
                       writes |-> 1]
                 ELSE IF isAnonymous(existingCredentials, credentials)
                 THEN [ok |-> TRUE, metadata |-> metadata, writes |-> 0]
                 ELSE [ok |-> credentialsMatch(credentials, existingCredentials),
                       metadata |-> metadata, writes |-> 0]

\* master.onConnectionChange(matchID, playerID, credentials, connected).
onConnectionChange(client, connected) ==
    [fn |-> "onConnectionChange",
     args |-> <<matchID, client.playerID, client.credentials, connected>>]

registerNotifications_always(client, isAuthenticated) ==
    <<onConnectionChange(client, TRUE)>>

registerNotifications_playersOnly(client, isAuthenticated) ==
    IF isAuthenticated /\ client.playerID \notin {Null, Undefined}
    THEN <<onConnectionChange(client, TRUE)>>
    ELSE <<>>

\* Lines 70-73: the engine calls of registerClient.
registerNotifications(client, isAuthenticated) ==
    IF isAuthenticated THEN <<onConnectionChange(client, TRUE)>> ELSE <<>>

unregisterNotifications_ifDeleted(client, deleted) ==
    IF deleted THEN <<onConnectionChange(client, FALSE)>> ELSE <<>>

\* Line 119: the engine calls of unregisterClient.
unregisterNotifications(client, deleted) ==
    <<onConnectionChange(client, FALSE)>>

\* Lines 54-56 and 59-62: the for loop stops at the first send that throws.
Invoked(recipients, failing) ==
    LET bad == {i \in 1..Len(recipients) : recipients[i] \in failing}
    IN  IF bad = {} THEN recipients ELSE SubSeq(recipients, 1, Min(bad))

\* Line 55: the handles the send callback selects.
sendRecipients(m, playerID) ==
    SelectSeq(m, LAMBDA c : hmeta[c].playerID = playerID)

\* The slot a handle claims, or NaN for a spectator.
ClaimedSlot(h) ==
    IF \/ hmeta[h].playerID \in {Null, Undefined}
       \/ ToNumber(hmeta[h].playerID) \notin Slots
    THEN NaN
    ELSE ToNumber(hmeta[h].playerID)

Index(sq, v) == CHOOSE i \in 1..Len(sq) : sq[i] = v

\* A total order on client metadata values.
Rank(m) ==
    Index(PlayerIDSeq, m.playerID) * (Len(CredentialSeq) + 1)
        + Index(CredentialSeq, m.credentials)

\* The metadata of the handles. No branch of lines 81-114 reads the
\* credentials of a handle that claims no slot, so such handles come with
\* no credentials or with one non-empty value.
ClientMetadata ==
    {m \in [playerID : PlayerIDs, credentials : Credentials] :
        (m.playerID \in {Null, Undefined} \/ ToNumber(m.playerID) \notin Slots)
        => m.credentials \in {Undefined, "a"}}

\* Handles are told apart by reference only and every operation treats
\* them alike, so the handles are numbered in the order of their metadata:
\* every other assignment is a renaming of one of these.
Init ==
    /\ clients = <<>>
    /\ db = createMatch
    /\ hmeta \in [Handles -> ClientMetadata]
    /\ \A i, j \in Handles : i < j => Rank(hmeta[i]) <= Rank(hmeta[j])
    /\ last = NoCall
    /\ prev = [clients |-> <<>>, db |-> createMatch,
               firstClaim |-> [k \in Slots |-> Undefined], notified |-> {}]
    /\ firstClaim = [k \in Slots |-> Undefined]
    /\ firstStored = [k \in Slots |-> Undefined]
    /\ refused = {}
    /\ notified = {}
    /\ call = [h \in Handles |-> Idle]
    /\ arrivals = <<>>
    /\ host = [f \in {"status", "warned", "game"} |-> constructor(UniqueGame)[f]]
    /\ twin = NoTwin

\* The registry, the store, the first claims and the unmatched connect
\* notifications as a call finds them.
Before ==
    [clients |-> clients, db |-> db, firstClaim |-> firstClaim,
     notified |-> notified]

\* The handles with an unmatched connect notification after the engine
\* calls that a call on handle h made.
Notified(set, h, called) ==
    IF called = <<>> THEN set
    ELSE IF called[1].args[4] THEN set \cup {h} ELSE set \ {h}

\* Lines 67-74 on the registry and store s: the registry, the store and
\* the record of the call.
registered(s, h) ==
    LET client == hmeta[h]
        r == authenticateClient(client, s.db)
    IN  [clients |-> IF r.ok THEN MapSet(s.clients, h) ELSE s.clients,
         db |-> r.metadata,
         last |-> [NoCall EXCEPT !.op = "registerClient", !.client = h,
                      !.authenticated = <<r.ok>>, !.writes = r.writes,
                      !.called = registerNotifications(client, r.ok)]]

\* Lines 116-120 on the registry and store s.
unregistered(s, h) ==
    LET client == hmeta[h]
        deleted == h \in Range(s.clients)
    IN  [clients |-> MapDelete(s.clients, h),
         db |-> s.db,
         last |-> [NoCall EXCEPT !.op = "unregisterClient", !.client = h,
                      !.deleted = deleted,
                      !.again = (s.last.op = "unregisterClient"
                                    /\ s.last.client = h),
                      !.called = unregisterNotifications(client, deleted)]]

\* The registry, the store and the last call of this host.
This == [clients |-> clients, db |-> db, last |-> last]

\* What a registerClient(h) call with outcome n leaves in the registry, the
\* store and the history.
registerEffect(h, n) ==
    LET client == hmeta[h]
        ok == n.last.authenticated = <<TRUE>>
        k == ToNumber(client.playerID)
    IN  /\ db' = n.db
        /\ clients' = n.clients
        /\ firstClaim' =
              IF /\ client.playerID \notin {Null, Undefined}
                 /\ k \in Slots
                 /\ client.credentials \notin {Undefined, ""}
                 /\ firstClaim[k] = Undefined
              THEN [firstClaim EXCEPT ![k] = client.credentials]
              ELSE firstClaim
        /\ firstStored' =
              [s \in Slots |->
                  IF firstStored[s] = Undefined
                  THEN n.db.players[s].credentials
                  ELSE firstStored[s]]
        /\ refused' = IF ok THEN refused ELSE refused \cup {h}
        /\ notified' = Notified(notified, h, n.last.called)
        /\ prev' = Before
        /\ UNCHANGED hmeta

\* Lines 67-74 on this host.
register(h) ==
    LET n == registered(This, h)
    IN  last' = n.last /\ registerEffect(h, n)

\* What an unregisterClient(h) call with outcome n leaves in the registry
\* and the history.
unregisterEffect(h, n) ==
    /\ clients' = n.clients
    /\ notified' = Notified(notified, h, n.last.called)
    /\ prev' = Before
    /\ UNCHANGED <<db, hmeta, firstClaim, firstStored, refused>>

\* Lines 116-120 on this host.
unregister(h) ==
    LET n == unregistered(This, h)
    IN  last' = n.last /\ unregisterEffect(h, n)

\* Lines 67-74.
registerClient(h) == register(h) /\ UNCHANGED aux

\* Lines 116-120.
unregisterClient(h) == unregister(h) /\ UNCHANGED aux

\* Lines 52-57: the send callback, called by the Master.
send(playerID, data, failing) ==
    LET playerView == filterPlayerView(playerID, data)
        invoked == Invoked(sendRecipients(clients, playerID), failing)
    IN  /\ last' = [NoCall EXCEPT !.op = "send", !.target = playerID,
                       !.payload = data,
                       !.sent = [i \in 1..Len(invoked) |->
                                    [client |-> invoked[i], view |-> playerView]],
                       !.raised = (Range(invoked) \cap failing # {})]
        /\ prev' = Before
        /\ UNCHANGED aux
        /\ UNCHANGED <<clients, db, hmeta, firstClaim, firstStored, refused, notified>>

\* Lines 58-63: the sendAll callback, called by the Master.
sendAll(data, failing) ==
    LET invoked == Invoked(clients, failing)
    IN  /\ last' = [NoCall EXCEPT !.op = "sendAll", !.payload = data,
                       !.sent = [i \in 1..Len(invoked) |->
                                    [client |-> invoked[i],
                                     view |-> filterPlayerView(
                                         hmeta[invoked[i]].playerID, data)]],
                       !.raised = (Range(invoked) \cap failing # {})]
        /\ prev' = Before
        /\ UNCHANGED aux
        /\ UNCHANGED <<clients, db, hmeta, firstClaim, firstStored, refused, notified>>

route_chatAsUpdate(type, args) ==
    CASE type = "update" -> <<[fn |-> "onUpdate", args |-> args]>>
      [] type = "chat" -> <<[fn |-> "onUpdate", args |-> args]>>
      [] type = "sync" -> <<[fn |-> "onSync", args |-> args]>>
      [] OTHER -> <<>>

\* Lines 123-133: the engine calls of the switch.
route(type, args) ==
    CASE type = "update" -> <<[fn |-> "onUpdate", args |-> args]>>
      [] type = "chat" -> <<[fn |-> "onChatMessage", args |-> args]>>
      [] type = "sync" -> <<[fn |-> "onSync", args |-> args]>>
      [] OTHER -> <<>>

processAction_gated(type, args) ==
    /\ last' = [NoCall EXCEPT !.op = "processAction",
                   !.action = [type |-> type, args |-> args],
                   !.called = IF clients = <<>> THEN <<>>
                              ELSE route(type, args)]
    /\ prev' = Before
    /\ UNCHANGED aux
    /\ UNCHANGED <<clients, db, hmeta, firstClaim, firstStored, refused, notified>>

\* Lines 122-134.
processAction(type, args) ==
    /\ last' = [NoCall EXCEPT !.op = "processAction",
                   !.action = [type |-> type, args |-> args],
                   !.called = route(type, args)]
    /\ prev' = Before
    /\ UNCHANGED aux
    /\ UNCHANGED <<clients, db, hmeta, firstClaim, firstStored, refused, notified>>

\* The playerIDs the Master addresses: those of the handles it heard of.
Targets == {hmeta[h].playerID : h \in Handles}

\* The handles whose send throws during one fan-out: none, or one of the
\* recipients.
Failing(recipients) == {{}} \cup {{h} : h \in Range(recipients)}

Next ==
    \/ \E h \in Handles : registerClient(h)
    \/ \E h \in Handles : unregisterClient(h)
    \/ \E p \in Targets, d \in Payloads :
          \E f \in Failing(sendRecipients(clients, p)) : send(p, d, f)
    \/ \E d \in Payloads : \E f \in Failing(clients) : sendAll(d, f)
    \/ \E t \in ActionTypes, a \in ActionArgs : processAction(t, a)

Spec == Init /\ [][Next]_vars

(***************************************************************************)
(* registerClient statement by statement                                   *)
(***************************************************************************)

\* The handles whose registerClient call has begun and not returned.
InProgress == {h \in Handles : call[h].pc \in {"fetched", "checked"}}

runToCompletion_preempted(h) == TRUE

\* Lines 67-74 and 81-114 are synchronous (no await, no callback between
\* the fetch and the return), so a call begins only when none is in progress.
runToCompletion(h) == InProgress = {}

\* Lines 67-68 and 83: the call begins and fetches the metadata; each
\* handle calls once.
Fetch(h) ==
    /\ runToCompletion(h)
    /\ h \notin Range(arrivals)
    /\ call' = [call EXCEPT ![h] = [pc |-> "fetched", metadata |-> db,
                                    ok |-> FALSE]]
    /\ arrivals' = Append(arrivals, h)
    /\ UNCHANGED <<clients, db, hmeta, last, prev, firstClaim, firstStored,
                   refused, notified,
                   host, twin>>

\* Lines 86-113: the decision on the fetched metadata and the write.
Check(h) ==
    /\ call[h].pc = "fetched"
    /\ LET r == authenticateClient(hmeta[h], call[h].metadata)
       IN  /\ db' = IF r.writes = 1 THEN r.metadata ELSE db
           /\ call' = [call EXCEPT ![h].pc = "checked", ![h].ok = r.ok]
    /\ UNCHANGED <<clients, hmeta, last, prev, firstClaim, firstStored,
                   refused, notified, arrivals,
                   host, twin>>

\* Lines 70-74: the registration, the notification and the return.
Complete(h) ==
    /\ call[h].pc = "checked"
    /\ clients' = IF call[h].ok THEN MapSet(clients, h) ELSE clients
    /\ notified' =
          Notified(notified, h, registerNotifications(hmeta[h], call[h].ok))
    /\ call' = [call EXCEPT ![h].pc = "done"]
    /\ UNCHANGED <<db, hmeta, last, prev, firstClaim, firstStored, refused,
                   arrivals,
                   host, twin>>

NextSteps ==
    \/ \E h \in Handles : Fetch(h)
    \/ \E h \in Handles : Check(h)
    \/ \E h \in Handles : Complete(h)

SpecSteps == Init /\ [][NextSteps]_vars

(***************************************************************************)
(* The constructor                                                         *)
(***************************************************************************)

\* No host yet: the constructor has not been called.
InitNew ==
    /\ clients = <<>>
    /\ db = NoMatch
    /\ hmeta \in [Handles -> ClientMetadata]
    /\ \A i, j \in Handles : i < j => Rank(hmeta[i]) <= Rank(hmeta[j])
    /\ last = NoCall
    /\ prev = [clients |-> <<>>, db |-> NoMatch,
               firstClaim |-> [k \in Slots |-> Undefined], notified |-> {}]
    /\ firstClaim = [k \in Slots |-> Undefined]
    /\ firstStored = [k \in Slots |-> Undefined]
    /\ refused = {}
    /\ notified = {}
    /\ call = [h \in Handles |-> Idle]
    /\ arrivals = <<>>
    /\ host = [status |-> "none", warned |-> FALSE, game |-> UniqueGame]
    /\ twin = NoTwin

\* Lines 17-65: new P2PHost(...) for the game, and beside it the host
\* constructed for a game with a unique name.
new(game) ==
    /\ host.status = "none"
    /\ LET made == constructor(game)
       IN  /\ host' = [f \in {"status", "warned", "game"} |-> made[f]]
           /\ db' = made.db
           /\ prev' = [prev EXCEPT !.db = made.db]
           /\ twin' = IF made.status = "created"
                      THEN [NoTwin EXCEPT !.db = constructor(UniqueGame).db]
                      ELSE twin
    /\ UNCHANGED <<clients, hmeta, last, firstClaim, firstStored, refused,
                   notified, call, arrivals>>

\* registerClient(h) on the constructed host and on its twin.
registerNew(h) ==
    /\ host.status = "created"
    /\ register(h)
    /\ twin' = registered(twin, h)
    /\ UNCHANGED <<call, arrivals, host>>

\* unregisterClient(h) on the constructed host and on its twin.
unregisterNew(h) ==
    /\ host.status = "created"
    /\ unregister(h)
    /\ twin' = unregistered(twin, h)
    /\ UNCHANGED <<call, arrivals, host>>

NextNew ==
    \/ \E game \in Games : new(game)
    \/ \E h \in Handles : registerNew(h)
    \/ \E h \in Handles : unregisterNew(h)

SpecNew == InitNew /\ [][NextNew]_vars

(***************************************************************************)
(* registerClient and unregisterClient with the engine's reaction          *)
(***************************************************************************)

\* What the engine does inside onConnectionChange: nothing, or one call of
\* the send or the sendAll callback.
Reactions == {"none", "send", "sendAll"}

\* The handles a reaction addresses in the registry m.
reactionRecipients(m, reaction, playerID) ==
    CASE reaction = "sendAll" -> m
      [] reaction = "send" -> sendRecipients(m, playerID)
      [] OTHER -> <<>>

\* The record of a call whose notification the engine answered with the
\* reaction: the callback of lines 52-63 runs inside onConnectionChange, on
\* the registry as lines 72 and 118 left it.
reacted(n, reaction, playerID, data, failing) ==
    LET invoked ==
            Invoked(reactionRecipients(n.clients, reaction, playerID), failing)
    IN  [n.last EXCEPT
            !.reaction = reaction,
            !.registry = n.clients,
            !.target = IF reaction = "send" THEN playerID ELSE Undefined,
            !.payload = IF reaction = "none" THEN Undefined ELSE data,
            !.sent = [i \in 1..Len(invoked) |->
                         [client |-> invoked[i],
                          view |-> filterPlayerView(
                                      IF reaction = "send" THEN playerID
                                      ELSE hmeta[invoked[i]].playerID,
                                      data)]],
            !.raised = (Range(invoked) \cap failing # {})]

\* Lines 67-74 with the engine's reaction to the notification of line 73.
registerReact(h, reaction, playerID, data, failing) ==
    LET n == registered(This, h)
    IN  /\ n.last.called # <<>> \/ reaction = "none"
        /\ failing \in Failing(reactionRecipients(n.clients, reaction, playerID))
        /\ last' = IF n.last.called = <<>> THEN n.last
                   ELSE reacted(n, reaction, playerID, data, failing)
        /\ registerEffect(h, n)
        /\ UNCHANGED aux

\* Lines 116-120 with the engine's reaction to the notification of line 119.
unregisterReact(h, reaction, playerID, data, failing) ==
    LET n == unregistered(This, h)
    IN  /\ failing \in Failing(reactionRecipients(n.clients, reaction, playerID))
        /\ last' = reacted(n, reaction, playerID, data, failing)
        /\ unregisterEffect(h, n)
        /\ UNCHANGED aux

NextReact ==
    \/ \E h \in Handles, reaction \in Reactions, p \in Targets, d \in Payloads :
          \E f \in SUBSET Handles : registerReact(h, reaction, p, d, f)
    \/ \E h \in Handles, reaction \in Reactions, p \in Targets, d \in Payloads :
          \E f \in SUBSET Handles : unregisterReact(h, reaction, p, d, f)

SpecReact == Init /\ [][NextReact]_vars

TypeOK ==
    /\ Range(clients) \subseteq Handles
    /\ Len(clients) = Cardinality(Range(clients))
    /\ refused \subseteq Handles
    /\ notified \subseteq Handles

(***************************************************************************)
(* Properties                                                              *)
(***************************************************************************)

\* The last call was registerClient(h).
Registered(h) == last.op = "registerClient" /\ last.client = h

\* The last call was unregisterClient(h).
Unregistered(h) == last.op = "unregisterClient" /\ last.client = h

Stored(k) == db.players[k].credentials

StoredBefore(k) == prev.db.players[k].credentials

\* C1: once the stored credentials of a player slot are set, every later
\* state holds the same value for that slot.
C1_CredentialImmutability ==
    \A k \in Slots :
        /\ StoredBefore(k) # Undefined => Stored(k) = StoredBefore(k)
        /\ firstStored[k] # Undefined => Stored(k) = firstStored[k]

\* A bound slot was claimed again with other non-empty credentials.
C1_Witness ==
    /\ last.op = "registerClient"
    /\ ClaimedSlot(last.client) \in Slots
    /\ Truthy(hmeta[last.client].credentials)
    /\ Truthy(StoredBefore(ClaimedSlot(last.client)))
    /\ StoredBefore(ClaimedSlot(last.client)) # hmeta[last.client].credentials

\* C2: the first authenticate call for a slot that supplies non-empty
\* credentials returns true and stores them; every later call for that slot
\* with different non-empty credentials returns false and its handle is
\* not registered.
C2_OneShotBinding ==
    \A h \in Handles :
        (Registered(h) /\ ClaimedSlot(h) \in Slots
            /\ hmeta[h].credentials \notin {Undefined, ""})
        => LET k == ClaimedSlot(h)
               c == hmeta[h].credentials
           IN  /\ prev.firstClaim[k] = Undefined
                     => /\ last.authenticated = <<TRUE>>
                        /\ Stored(k) = c
               /\ prev.firstClaim[k] \notin {Undefined, c}
                     => /\ last.authenticated = <<FALSE>>
                        /\ h \notin Range(clients)

\* A later claim with different non-empty credentials was turned down.
C2_Witness ==
    /\ last.op = "registerClient"
    /\ last.authenticated = <<FALSE>>
    /\ ClaimedSlot(last.client) \in Slots
    /\ hmeta[last.client].credentials \notin {Undefined, ""}
    /\ prev.firstClaim[ClaimedSlot(last.client)]
          \notin {Undefined, hmeta[last.client].credentials}
    /\ last.client \notin Range(clients)

\* C3: a handle whose authentication in registerClient returned false is
\* absent from the registry afterwards and no later fan-out invokes its send.
C3_RefusedNeverRegistered ==
    \A h \in refused :
        /\ h \notin Range(clients)
        /\ \A i \in 1..Len(last.sent) : last.sent[i].client # h

\* C4: on sendAll(payload) every registered handle receives exactly one
\* payload, the view filtered for its own playerID.
C4_BroadcastRedaction ==
    last.op = "sendAll"
    => /\ Len(last.sent) = Len(clients)
       /\ \A i \in 1..Len(last.sent) :
             last.sent[i] =
                [client |-> clients[i],
                 view |-> filterPlayerView(hmeta[clients[i]].playerID,
                                           last.payload)]

\* C5: on sendToPlayer(p, payload) the handles whose send is invoked are
\* exactly the registered handles whose playerID equals p, each once, and
\* each receives the view filtered for p.
C5_TargetedRecipients ==
    last.op = "send"
    => /\ {last.sent[i].client : i \in 1..Len(last.sent)}
             = {h \in Range(clients) : hmeta[h].playerID = last.target}
       /\ Len(last.sent)
             = Cardinality({last.sent[i].client : i \in 1..Len(last.sent)})
       /\ \A i \in 1..Len(last.sent) :
             last.sent[i].view = filterPlayerView(last.target, last.payload)

\* C6 as stated: on an unbound slot authenticate returns true, binds the
\* supplied credentials if any are supplied and writes nothing if none are;
\* on a bound slot it returns true iff the supplied credentials equal the
\* stored ones.
C6_AuthorizationDecision_Original ==
    \A h \in Handles :
        (Registered(h) /\ ClaimedSlot(h) \in Slots)
        => LET k == ClaimedSlot(h)
               c == hmeta[h].credentials
           IN  /\ StoredBefore(k) = Undefined
                     => /\ last.authenticated = <<TRUE>>
                        /\ c # Undefined
                              => Stored(k) = c /\ last.writes = 1
                        /\ c = Undefined
                              => last.writes = 0 /\ db = prev.db
               /\ StoredBefore(k) # Undefined
                     => last.authenticated = <<c = StoredBefore(k)>>

\* C6 as amended: on an unbound slot authenticate returns true, binds the
\* supplied credentials if they are a non-empty string and writes nothing
\* if none or the empty string is supplied; on a bound slot it returns true
\* iff the supplied credentials equal the stored ones.
C6_AuthorizationDecision ==
    \A h \in Handles :
        (Registered(h) /\ ClaimedSlot(h) \in Slots)
        => LET k == ClaimedSlot(h)
               c == hmeta[h].credentials
           IN  /\ StoredBefore(k) \in {Undefined, ""}
                     => /\ last.authenticated = <<TRUE>>
                        /\ c \notin {Undefined, ""}
                              => Stored(k) = c /\ last.writes = 1
                        /\ c \in {Undefined, ""}
                              => last.writes = 0 /\ db = prev.db
               /\ StoredBefore(k) \notin {Undefined, ""}
                     => last.authenticated = <<c = StoredBefore(k)>>

\* A handle supplying no credentials was turned down on a bound slot.
C6_Witness ==
    /\ last.op = "registerClient"
    /\ ClaimedSlot(last.client) \in Slots
    /\ hmeta[last.client].credentials = Undefined
    /\ StoredBefore(ClaimedSlot(last.client)) # Undefined
    /\ last.authenticated = <<FALSE>>

\* The playerID strings that are decimal numerals, and their values.
IsNumeral(s) == s \in {"0", "1", "7"}

NumeralValue(s) == CASE s = "0" -> 0 [] s = "1" -> 1 [] s = "7" -> 7

\* The outcome of registerClient(h) for a spectator.
SpectatorOutcome(h) ==
    /\ last.authenticated = <<TRUE>>
    /\ last.writes = 0
    /\ db = prev.db
    /\ h \in Range(clients)
    /\ last.called = <<onConnectionChange(hmeta[h], TRUE)>>

C8_RegistrationOutcome ==
    \A h \in Handles :
        Registered(h)
        => IF last.authenticated = <<FALSE>>
           THEN /\ clients = prev.clients
                /\ db = prev.db
                /\ last.called = <<>>
                /\ last.sent = <<>>
           ELSE /\ Range(clients) = Range(prev.clients) \cup {h}
                /\ last.called = <<onConnectionChange(hmeta[h], TRUE)>>

\* A registration was turned down while another handle was registered.
C8_Witness ==
    /\ last.op = "registerClient"
    /\ last.authenticated = <<FALSE>>
    /\ clients # <<>>

\* C9: unregisterClient(h) raises nothing and removes h only; called on an
\* absent handle, or a second time in a row, it leaves the registry as it is.
C9_IdempotentUnregister ==
    \A h \in Handles :
        Unregistered(h)
        => /\ ~last.raised
           /\ h \notin Range(clients)
           /\ clients = SelectSeq(prev.clients, LAMBDA c : c # h)
           /\ h \notin Range(prev.clients) => clients = prev.clients
           /\ last.again => clients = prev.clients

\* unregisterClient was called twice in a row on one handle while another
\* handle was registered.
C9_Witness ==
    /\ last.op = "unregisterClient"
    /\ last.again
    /\ ~last.deleted
    /\ clients # <<>>

\* C10: every unregisterClient(h) removes h and sends exactly one
\* connected=false notification, without an authorization check and
\* whether or not h was registered.
C10_UnregisterAlwaysNotifies ==
    \A h \in Handles :
        Unregistered(h)
        => /\ h \notin Range(clients)
           /\ last.called = <<onConnectionChange(hmeta[h], FALSE)>>
           /\ last.authenticated = <<>>
           /\ last.writes = 0
           /\ db = prev.db

\* A handle whose registration was refused was unregistered.
C10_Witness ==
    /\ last.op = "unregisterClient"
    /\ last.client \in refused
    /\ ~last.deleted

\* The handles whose send the last fan-out invoked.
Reached == {last.sent[i].client : i \in 1..Len(last.sent)}

\* C11: in sendAll and in sendToPlayer a recipient whose send raises does
\* not stop the fan-out: every recipient of that fan-out still has its send
\* invoked with its own filtered payload.
C11_FanOutSurvivesFailingSend ==
    (last.op \in {"send", "sendAll"} /\ last.raised)
    => LET recipients ==
               IF last.op = "sendAll" THEN clients
               ELSE sendRecipients(clients, last.target)
       IN  \A h \in Range(recipients) :
               \E i \in 1..Len(last.sent) :
                   last.sent[i] =
                      [client |-> h,
                       view |-> filterPlayerView(
                                   IF last.op = "sendAll"
                                   THEN hmeta[h].playerID ELSE last.target,
                                   last.payload)]

KnownTypes == {"update", "chat", "sync"}

\* C13: processAction calls onUpdate for an update message, onSync for a
\* sync message and onChatMessage for a chat message, once, with the
\* message's arguments in their order; for any other kind it calls nothing,
\* raises nothing and changes neither the registry nor the store.
C13_ActionRouting ==
    last.op = "processAction"
    => /\ last.action.type = "update"
             => last.called = <<[fn |-> "onUpdate", args |-> last.action.args]>>
       /\ last.action.type = "sync"
             => last.called = <<[fn |-> "onSync", args |-> last.action.args]>>
       /\ last.action.type = "chat"
             => last.called =
                   <<[fn |-> "onChatMessage", args |-> last.action.args]>>
       /\ last.action.type \notin KnownTypes
             => /\ last.called = <<>>
                /\ ~last.raised
                /\ clients = prev.clients
                /\ db = prev.db
                /\ notified = prev.notified

\* A chat message with two arguments was forwarded.
C13_Witness ==
    /\ last.op = "processAction"
    /\ last.action.type = "chat"
    /\ Len(last.action.args) = 2
    /\ last.called # <<>>

\* The claimed slot of h exists and held no credentials before the last call.
ClaimsUnbound(h) ==
    /\ ClaimedSlot(h) \in Slots
    /\ ~Truthy(StoredBefore(ClaimedSlot(h)))

\* C14 as stated: one authenticate call writes the metadata at most once,
\* and writes it exactly when the claimed slot exists, holds no credentials
\* and the handle supplies credentials.
C14_WritesOnlyOnFirstBinding_Original ==
    \A h \in Handles :
        Registered(h)
        => /\ last.writes \in {0, 1}
           /\ last.writes = 1
                 <=> (ClaimsUnbound(h) /\ hmeta[h].credentials # Undefined)

\* C14, amended: one authenticate call writes the metadata at most once,
\* and writes it exactly when the claimed slot exists, holds no credentials
\* and the handle supplies non-empty credentials; every other call leaves
\* the store as it was.
C14_WritesOnlyOnFirstBinding ==
    \A h \in Handles :
        Registered(h)
        => /\ last.writes \in {0, 1}
           /\ last.writes = 1
                 <=> (ClaimsUnbound(h) /\ Truthy(hmeta[h].credentials))
           /\ last.writes = 0 => db = prev.db

\* A handle bound a slot that an anonymous claim had left unbound.
C14_Witness ==
    /\ last.op = "registerClient"
    /\ last.writes = 1
    /\ db # prev.db
    /\ \E g \in Range(prev.clients) :
          /\ ClaimedSlot(g) = ClaimedSlot(last.client)
          /\ hmeta[g].credentials = ""

\* C15: the metadata written on a binding equals the fetched metadata except
\* that the credentials of the claimed slot are the supplied ones: the other
\* slots, the other fields of the slot and the rest of the metadata are
\* unchanged.
C15_CopyOnWriteBinding ==
    \A h \in Handles :
        (Registered(h) /\ last.writes = 1)
        => LET k == ClaimedSlot(h)
           IN  /\ DOMAIN db = DOMAIN prev.db
               /\ \A f \in DOMAIN db \ {"players"} : db[f] = prev.db[f]
               /\ DOMAIN db.players = DOMAIN prev.db.players
               /\ \A j \in Slots \ {k} : db.players[j] = prev.db.players[j]
               /\ DOMAIN db.players[k] = DOMAIN prev.db.players[k]
               /\ \A f \in DOMAIN db.players[k] \ {"credentials"} :
                     db.players[k][f] = prev.db.players[k][f]
               /\ db.players[k].credentials = hmeta[h].credentials

\* A slot was bound by a handle whose playerID is the slot's numeral.
C15_Witness ==
    /\ last.op = "registerClient"
    /\ last.writes = 1
    /\ hmeta[last.client].playerID = "0"
    /\ db.players[0].credentials = hmeta[last.client].credentials
    /\ prev.db.players[0].credentials = Undefined

\* C16: sendAll, sendToPlayer and processAction leave the registry and the
\* stored credentials as they were and check no authorization; processAction
\* forwards a message whichever handles are registered.
C16_OnlyRegistrationMutates ==
    /\ last.op \in {"send", "sendAll", "processAction"}
          => /\ clients = prev.clients
             /\ db = prev.db
             /\ last.authenticated = <<>>
             /\ last.writes = 0
    /\ (last.op = "processAction" /\ last.action.type \in KnownTypes)
          => Len(last.called) = 1

\* A message was forwarded while no handle was registered.
C16_Witness ==
    /\ last.op = "processAction"
    /\ last.action.type \in KnownTypes
    /\ clients = <<>>
    /\ last.called # <<>>

\* C18: every registered handle that claims a slot whose stored credentials
\* are set supplies those credentials, also when it registered before the
\* slot was bound.
C18_RegisteredClaimsMatchBinding ==
    \A h \in Range(clients) :
        (ClaimedSlot(h) \in Slots /\ Truthy(Stored(ClaimedSlot(h))))
        => hmeta[h].credentials = Stored(ClaimedSlot(h))

\* C20 as stated: every connected=false notification for a handle comes
\* after a connected=true notification for that handle that no earlier
\* connected=false notification has matched.
C20_DisconnectFollowsConnect_Original ==
    \A h \in Handles :
        (Unregistered(h)
            /\ last.called = <<onConnectionChange(hmeta[h], FALSE)>>)
        => h \in prev.notified

\* C20, amended: every registered handle has an unmatched connected=true
\* notification, so every connected=false notification sent for a handle
\* that unregisterClient removed from the registry comes after an unmatched
\* connected=true notification for it; unregisterClient on an absent handle
\* sends connected=false all the same.
C20_DisconnectFollowsConnect ==
    /\ Range(clients) \subseteq notified
    /\ \A h \in Handles :
          Unregistered(h)
          => /\ last.called = <<onConnectionChange(hmeta[h], FALSE)>>
             /\ last.deleted => h \in prev.notified

\* A registered handle was unregistered while another one stayed.
C20_Witness ==
    /\ last.op = "unregisterClient"
    /\ last.deleted
    /\ last.client \in prev.notified
    /\ last.client \notin notified
    /\ clients # <<>>

\* h arrived before g.
ArrivedBefore(h, g) ==
    /\ h \in Range(arrivals)
    /\ g \in Range(arrivals)
    /\ Index(arrivals, h) < Index(arrivals, g)

\* h1 then h2 claimed the same slot, unbound when h1 arrived, with different
\* non-empty credentials, and both calls have returned.
RivalClaims(h1, h2) ==
    /\ ArrivedBefore(h1, h2)
    /\ call[h1].pc = "done"
    /\ call[h2].pc = "done"
    /\ ClaimedSlot(h1) \in Slots
    /\ ClaimedSlot(h2) = ClaimedSlot(h1)
    /\ Truthy(hmeta[h1].credentials)
    /\ Truthy(hmeta[h2].credentials)
    /\ hmeta[h1].credentials # hmeta[h2].credentials
    /\ \A g \in Handles :
          (ArrivedBefore(g, h1) /\ ClaimedSlot(g) = ClaimedSlot(h1))
          => ~Truthy(hmeta[g].credentials)

\* C12: the fetch, check and write of one authenticate call are never
\* interleaved with those of another, and of two handles that claim the same
\* unbound slot with different non-empty credentials exactly one, the first
\* to arrive, is authorized and registered, and its credentials are the
\* stored ones.
C12_NoDoubleAuthorization ==
    /\ Cardinality(InProgress) <= 1
    /\ \A h1, h2 \in Handles :
          RivalClaims(h1, h2)
          => /\ call[h1].ok
             /\ ~call[h2].ok
             /\ h1 \in Range(clients)
             /\ h2 \notin Range(clients)
             /\ Stored(ClaimedSlot(h1)) = hmeta[h1].credentials

\* Two rival claims for one slot have both returned.
C12_Witness == \E h1, h2 \in Handles : RivalClaims(h1, h2)

\* C17: a game whose match setup reports a setup error makes the
\* constructor throw, with no match stored and no host to operate; a game
\* whose name is empty or "default" gets a warning only: its host is
\* created and, given the same calls, has the registry, the slots, the
\* engine calls and the results of a host constructed with a unique name.
C17_ConstructionOutcomes ==
    host.status # "none"
    => /\ host.warned <=> host.game.name \in {"", "default"}
       /\ host.status = (IF host.game.setupDataError THEN "failed"
                         ELSE "created")
       /\ host.status = "failed"
             => /\ db = NoMatch
                /\ clients = <<>>
                /\ last = NoCall
       /\ host.status = "created"
             => /\ clients = twin.clients
                /\ last = twin.last
                /\ db = [twin.db EXCEPT !.gameName = host.game.name]

\* A host constructed with a warning bound a slot.
C17_Witness ==
    /\ host.status = "created"
    /\ host.warned
    /\ last.op = "registerClient"
    /\ last.writes = 1
    /\ twin.last = last

\* The engine's reaction to the last notification addresses h.
Addresses(h) ==
    \/ last.reaction = "sendAll"
    \/ last.reaction = "send" /\ last.target = hmeta[h].playerID

\* C19: when the connected=true notification of registerClient(h) is
\* delivered h is in the registry, and when the connected=false notification
\* of unregisterClient(h) is delivered h is out of it; so a fan-out the
\* engine makes in response to the connect notification reaches h, and one
\* made in response to the disconnect notification does not.
C19_RegistryUpdatedBeforeNotification ==
    \A h \in Handles :
        /\ (Registered(h) /\ last.called # <<>>)
              => /\ h \in Range(last.registry)
                 /\ Addresses(h) => h \in Reached
        /\ Unregistered(h)
              => /\ h \notin Range(last.registry)
                 /\ h \notin Reached

====
